---- MODULE Spec2Model ----
(***************************************************************************)
(* Model of evcxr/src/eval_context/compilation.rs: the registry of         *)
(* functions to be compiled into a shared library (SharedLibFunctions),    *)
(* the inference of a snippet's outputs (find_outputs) and the scope       *)
(* loading of a ContextState (load_scope).                                 *)
(*                                                                         *)
(* Text is modelled as a sequence of tokens: every literal piece of a      *)
(* format string is one token, every interpolated name, type or body is    *)
(* one token.                                                              *)
(***************************************************************************)
EXTENDS Integers, Sequences, FiniteSets, TLC

VARIABLES
    functions,               \* SharedLibFunctions.functions: Vec<ParsedFunction>
    prev_functions,          \* functions as they were when the last add_fn was entered
    call,                    \* arguments of the add_fn / find_outputs / load_scope call
    result,                  \* Result returned by the last add_fn / find_outputs
    pc,                      \* position inside find_outputs
    steps,                   \* the steps of find_outputs executed so far, with outcome
    variable_states,         \* ContextState.variable_states (live map)
    stored_variable_states,  \* ContextState.stored_variable_states (baseline)
    prev_variable_states     \* variable_states as they were when load_scope was entered

vars == <<functions, prev_functions, call, result, pc, steps,
          variable_states, stored_variable_states, prev_variable_states>>

(***************************************************************************)
(* Bounds                                                                  *)
(***************************************************************************)
MaxFns == 2        \* longest registry explored
MaxLoadScope == 2  \* longest scope handed to load_scope on its own

(***************************************************************************)
(* Data                                                                    *)
(***************************************************************************)
FunctionArg(n, t) == [arg_name |-> n, arg_type |-> t]

ParsedFunction(n, b, i, o) == [name |-> n, fn_body |-> b, inputs |-> i, outputs |-> o]

VariableState(t, m, ms, sp) ==
    [type_name |-> t, is_mut |-> m, move_state |-> ms, definition_span |-> sp]

\* The type of a binding nobody has resolved yet.
Unresolved == "_"

ConcreteTypes == {"i32", "bool"}

FnNames == {"add", "f"}

\* The (name, type) pairs a caller's scope is made of.
ScopeArgs == {FunctionArg("a", "i32"), FunctionArg("x", "i32"), FunctionArg("a", Unresolved)}

RECURSIVE SeqsUpTo(_, _)
SeqsUpTo(S, n) ==
    IF n = 0 THEN {<<>>}
    ELSE LET shorter == SeqsUpTo(S, n - 1)
         IN  shorter \cup {Append(s, e) : s \in {t \in shorter : Len(t) = n - 1}, e \in S}

\* The scopes add_fn and find_outputs are called with.
Scopes == {<<>>, <<FunctionArg("a", "i32")>>, <<FunctionArg("x", "i32")>>,
           <<FunctionArg("a", Unresolved), FunctionArg("x", "i32")>>}

\* The scopes load_scope is called with on its own.
LoadScopes == SeqsUpTo(ScopeArgs, MaxLoadScope)

ArgNames(scope) == {scope[i].arg_name : i \in 1..Len(scope)}

(***************************************************************************)
(* Snippets.  A snippet is its text; CodeBlock::from_original_user_code    *)
(* turns the text into statements.                                         *)
(***************************************************************************)
Stmt(op, n, t, m) == [op |-> op, name |-> n, ty |-> t, is_mut |-> m]

Snippets == {"let b = 2; a + b", "a += 1", "let x = true;", "let b = 2; let c = true;",
             "drop(a);", "let b = z;", "let mut a = 0;"}

from_original_user_code(text) ==
    CASE text = "let b = 2; a + b" ->
            <<Stmt("let", "b", "i32", FALSE), Stmt("use", "a", "", FALSE),
              Stmt("use", "b", "", FALSE)>>
      [] text = "a += 1" -> <<Stmt("mutate", "a", "", FALSE)>>
      [] text = "let x = true;" -> <<Stmt("let", "x", "bool", FALSE)>>
      [] text = "let b = 2; let c = true;" ->
            <<Stmt("let", "b", "i32", FALSE), Stmt("let", "c", "bool", FALSE)>>
      [] text = "drop(a);" -> <<Stmt("move", "a", "", FALSE)>>
      [] text = "let b = z;" -> <<Stmt("use", "z", "", FALSE), Stmt("let", "b", "i32", FALSE)>>
      [] text = "let mut a = 0;" -> <<Stmt("let", "a", "i32", TRUE)>>

\* The names a snippet declares with let.
Declared(text) ==
    LET s == from_original_user_code(text)
    IN  {s[i].name : i \in {j \in 1..Len(s) : s[j].op = "let"}}

(***************************************************************************)
(* Variable environment                                                    *)
(***************************************************************************)
EmptyMap == [n \in {} |-> VariableState("", FALSE, "Available", "None")]

\* HashMap::insert: the entry of key k is created or overwritten.
Insert(m, k, v) == [n \in (DOMAIN m) \cup {k} |-> IF n = k THEN v ELSE m[n]]

RECURSIVE load_scope_from(_, _, _)
load_scope_from(vs, scope, i) ==
    IF i > Len(scope) THEN vs
    ELSE load_scope_from(
             Insert(vs, scope[i].arg_name,
                    VariableState(scope[i].arg_type, FALSE, "Available", "None")),
             scope, i + 1)

RECURSIVE load_scope_keeping(_, _)
load_scope_keeping(vs, scope) ==
    IF Len(scope) = 0 THEN vs
    ELSE load_scope_keeping(
             IF Head(scope).arg_name \in DOMAIN vs THEN vs
             ELSE Insert(vs, Head(scope).arg_name,
                         VariableState(Head(scope).arg_type, FALSE, "Available", "None")),
             Tail(scope))

\* The live map after load_scope; the baseline is a clone of it.
load_scope(vs, scope) == load_scope_from(vs, scope, 1)

(***************************************************************************)
(* Snippet application (ContextState::apply) and the type-analysis engine  *)
(* (RustAnalyzer::fix_variable_types).                                     *)
(***************************************************************************)
apply_stmt(vs, st) ==
    CASE st.op = "let" ->
            [ok |-> TRUE,
             vs |-> Insert(vs, st.name, VariableState(Unresolved, st.is_mut, "New", "Some"))]
      [] st.op = "move" ->
            IF st.name \in DOMAIN vs
            THEN [ok |-> TRUE, vs |-> [vs EXCEPT ![st.name].move_state = "Moved"]]
            ELSE [ok |-> FALSE, vs |-> vs]
      [] OTHER -> [ok |-> st.name \in DOMAIN vs, vs |-> vs]

RECURSIVE apply_from(_, _, _)
apply_from(vs, stmts, i) ==
    IF i > Len(stmts) THEN [ok |-> TRUE, vs |-> vs]
    ELSE LET r == apply_stmt(vs, stmts[i])
         IN  IF r.ok THEN apply_from(r.vs, stmts, i + 1) ELSE r

apply(vs, stmts) == apply_from(vs, stmts, 1)

\* The type the engine reports for the binding the snippet declares as n:
\* that of its last declaration.
RECURSIVE decl_type(_, _, _)
decl_type(stmts, n, i) ==
    IF i = 0 THEN Unresolved
    ELSE IF stmts[i].op = "let" /\ stmts[i].name = n THEN stmts[i].ty
    ELSE decl_type(stmts, n, i - 1)

\* The types the engine may settle on for binding n of the environment.
resolved_types(vs, stmts, n) ==
    IF vs[n].move_state = "New" THEN {decl_type(stmts, n, Len(stmts))}
    ELSE IF vs[n].type_name = Unresolved THEN ConcreteTypes
    ELSE {vs[n].type_name}

\* The environments a successful run of the engine may leave.
fix_variable_types(vs, stmts) ==
    {[n \in DOMAIN vs |-> [vs[n] EXCEPT !.type_name = ch[n]]] :
        ch \in {c \in [DOMAIN vs -> ConcreteTypes \cup {Unresolved}] :
                    \A n \in DOMAIN vs : c[n] \in resolved_types(vs, stmts, n)}}

(***************************************************************************)
(* find_outputs                                                            *)
(***************************************************************************)
Ok(o) == [ok |-> TRUE, outputs |-> o, err |-> "none"]

Err(k) == [ok |-> FALSE, outputs |-> <<>>, err |-> k]

NoResult == [ok |-> FALSE, outputs |-> <<>>, err |-> "pending"]

\* The filter of the final collection.
is_output_baseline(name, st) ==
    st.move_state = "New" /\ name \notin DOMAIN stored_variable_states

is_output_not_available(name, st) == st.move_state # "Available"

is_output_not_moved(name, st) == st.move_state # "Moved"

is_output(name, st) == st.move_state = "New"

\* All the orders in which a map can hand out the keys of S.
Orderings(S) ==
    {s \in [1..Cardinality(S) -> S] : \A i, j \in 1..Cardinality(S) : s[i] = s[j] => i = j}

\* variable_states.into_iter().filter(..).map(..).collect(): the map is
\* unordered, so every order of the remaining entries is a possible result.
collect(vs) ==
    {[i \in 1..Len(o) |-> FunctionArg(o[i], vs[o[i]].type_name)] :
        o \in Orderings({n \in DOMAIN vs : is_output(n, vs[n])})}

\* Every result find_outputs(code, scope) can return.
find_outputs(code, scope) ==
    LET stmts == from_original_user_code(code)
        ap == apply(load_scope(EmptyMap, scope), stmts)
    IN  {Err("WorkspaceError")}
        \cup (IF ~ap.ok THEN {Err("ApplicationError")}
              ELSE {Err("AnalysisError")}
                   \cup {Ok(o) : o \in UNION {collect(r) : r \in fix_variable_types(ap.vs, stmts)}})

(***************************************************************************)
(* SharedLibFunctions                                                      *)
(***************************************************************************)
inputs_reinferred(scope) ==
    [i \in 1..Len(scope) |->
        IF scope[i].arg_type = Unresolved THEN FunctionArg(scope[i].arg_name, "i32")
        ELSE scope[i]]

\* let inputs = scope.to_owned();
inputs_of(scope) == scope

add_fn_partial(fs, name, fn_body, scope, res) ==
    Append(fs, ParsedFunction(name, fn_body, inputs_of(scope), res.outputs))

add_fn_replace(fs, name, fn_body, scope, res) ==
    IF ~res.ok THEN fs
    ELSE LET rec == ParsedFunction(name, fn_body, inputs_of(scope), res.outputs)
         IN  IF \E i \in 1..Len(fs) : fs[i].name = name
             THEN [i \in 1..Len(fs) |-> IF fs[i].name = name THEN rec ELSE fs[i]]
             ELSE Append(fs, rec)

\* The registry after add_fn(name, fn_body, scope) when find_outputs returned res.
add_fn(fs, name, fn_body, scope, res) ==
    IF res.ok
    THEN Append(fs, ParsedFunction(name, fn_body, inputs_of(scope), res.outputs))
    ELSE fs

(***************************************************************************)
(* SharedLibFunctions::code                                                *)
(***************************************************************************)
RECURSIVE join(_, _)
\* parts.join(sep), parts a sequence of token sequences
join(parts, sep) ==
    IF Len(parts) = 0 THEN <<>>
    ELSE IF Len(parts) = 1 THEN parts[1]
    ELSE parts[1] \o <<sep>> \o join(Tail(parts), sep)

\* format!("{}: {}", arg_name, arg_type)
fmt_input(arg) == <<arg.arg_name, ": ", arg.arg_type>>

\* format!("{arg_type},")
fmt_output_type(arg) == <<arg.arg_type, ",">>

\* format!("{arg_name},")
fmt_output_var(arg) == <<arg.arg_name, ",">>

inputs_text(inputs) == join([i \in 1..Len(inputs) |-> fmt_input(inputs[i])], ", ")

outputs_types(outputs) ==
    join([i \in 1..Len(outputs) |-> fmt_output_type(outputs[i])], " ")

outputs_vars_reversed(outputs) ==
    join([i \in 1..Len(outputs) |-> fmt_output_var(outputs[Len(outputs) + 1 - i])], " ")

outputs_vars(outputs) ==
    join([i \in 1..Len(outputs) |-> fmt_output_var(outputs[i])], " ")

\* The literal pieces of the format string of one definition.
Header == "\n#[nomangle]\npub extern \"C\" fn "

OpenParams == "("

Arrow == ") -> ("

OpenBody == ") {\n    "

CloseBody == ";\n    ("

Footer == ")\n}\n"

\* The text pushed for one record.
fn_text(f) ==
    <<Header, f.name, OpenParams>> \o inputs_text(f.inputs)
    \o <<Arrow>> \o outputs_types(f.outputs)
    \o <<OpenBody, f.fn_body, CloseBody>> \o outputs_vars(f.outputs)
    \o <<Footer>>

RECURSIVE code(_)
code(fs) == IF Len(fs) = 0 THEN <<>> ELSE fn_text(Head(fs)) \o code(Tail(fs))

Call(n, b, s) == [name |-> n, fn_body |-> b, scope |-> s]

NoCall == Call("", "", <<>>)

Init ==
    /\ functions = <<>>
    /\ prev_functions = <<>>
    /\ call = NoCall
    /\ result = NoResult
    /\ pc = "idle"
    /\ steps = <<>>
    /\ variable_states = EmptyMap
    /\ stored_variable_states = EmptyMap
    /\ prev_variable_states = EmptyMap

\* One whole call add_fn(name, fn_body, scope) on the registry.
AddFn ==
    /\ Len(functions) < MaxFns
    /\ \E name \in FnNames, fn_body \in Snippets, scope \in Scopes :
         \E res \in find_outputs(fn_body, scope) :
            /\ functions' = add_fn(functions, name, fn_body, scope, res)
            /\ prev_functions' = functions
            /\ result' = res
    /\ UNCHANGED <<call, pc, steps, variable_states, stored_variable_states,
                   prev_variable_states>>

Next == AddFn

Spec == Init /\ [][Next]_vars

(***************************************************************************)
(* One call of add_fn on an empty registry, statement by statement.        *)
(***************************************************************************)
\* The statements of find_outputs that can fail or change the state, in
\* program order, and the push of add_fn after them.
succ_pc(p) ==
    CASE p = "tmp_config" -> "load_scope"
      [] p = "load_scope" -> "apply"
      [] p = "apply" -> "module_new"
      [] p = "module_new" -> "write_cargo_toml"
      [] p = "write_cargo_toml" -> "write_config_toml"
      [] p = "write_config_toml" -> "analyzer_new"
      [] p = "analyzer_new" -> "fix_variable_types"
      [] p = "fix_variable_types" -> "collect"
      [] p = "collect" -> "push"
      [] p = "push" -> "done"

next_pc_ignoring(p, ok) == succ_pc(p)

\* The ? operator (and the explicit return Err): a failed step returns.
next_pc(p, ok) == IF ok THEN succ_pc(p) ELSE "done"

Step(p, ok) == [step |-> p, ok |-> ok]

InitInfer ==
    /\ functions = <<>>
    /\ prev_functions = <<>>
    /\ call \in {Call(n, b, s) : n \in FnNames, b \in Snippets, s \in Scopes}
    /\ result = NoResult
    /\ pc = "tmp_config"
    /\ steps = <<>>
    /\ variable_states = EmptyMap
    /\ stored_variable_states = EmptyMap
    /\ prev_variable_states = EmptyMap

\* A step that only succeeds or fails with an error of kind k.
Fallible(p, k) ==
    /\ pc = p
    /\ \E ok \in BOOLEAN :
          /\ pc' = next_pc(p, ok)
          /\ steps' = Append(steps, Step(p, ok))
          /\ result' = IF ok THEN result ELSE Err(k)
    /\ UNCHANGED <<functions, prev_functions, call, variable_states,
                   stored_variable_states, prev_variable_states>>

TmpConfig == Fallible("tmp_config", "WorkspaceError")

LoadScope ==
    /\ pc = "load_scope"
    /\ pc' = next_pc("load_scope", TRUE)
    /\ steps' = Append(steps, Step("load_scope", TRUE))
    /\ prev_variable_states' = variable_states
    /\ variable_states' = load_scope(variable_states, call.scope)
    /\ stored_variable_states' = variable_states'
    /\ UNCHANGED <<functions, prev_functions, call, result>>

Apply ==
    /\ pc = "apply"
    /\ LET r == apply(variable_states, from_original_user_code(call.fn_body))
       IN  /\ pc' = next_pc("apply", r.ok)
           /\ steps' = Append(steps, Step("apply", r.ok))
           /\ variable_states' = r.vs
           /\ result' = IF r.ok THEN result ELSE Err("ApplicationError")
    /\ UNCHANGED <<functions, prev_functions, call, stored_variable_states,
                   prev_variable_states>>

ModuleNew == Fallible("module_new", "WorkspaceError")

WriteCargoToml == Fallible("write_cargo_toml", "WorkspaceError")

WriteConfigToml == Fallible("write_config_toml", "WorkspaceError")

AnalyzerNew == Fallible("analyzer_new", "AnalysisError")

FixVariableTypes ==
    /\ pc = "fix_variable_types"
    /\ \E ok \in BOOLEAN :
          /\ pc' = next_pc("fix_variable_types", ok)
          /\ steps' = Append(steps, Step("fix_variable_types", ok))
          /\ IF ok
             THEN /\ variable_states' \in
                        fix_variable_types(variable_states,
                                           from_original_user_code(call.fn_body))
                  /\ result' = result
             ELSE /\ variable_states' = variable_states
                  /\ result' = Err("AnalysisError")
    /\ UNCHANGED <<functions, prev_functions, call, stored_variable_states,
                   prev_variable_states>>

Collect ==
    /\ pc = "collect"
    /\ pc' = next_pc("collect", TRUE)
    /\ steps' = Append(steps, Step("collect", TRUE))
    /\ \E o \in collect(variable_states) : result' = Ok(o)
    /\ UNCHANGED <<functions, prev_functions, call, variable_states,
                   stored_variable_states, prev_variable_states>>

Push ==
    /\ pc = "push"
    /\ pc' = next_pc("push", TRUE)
    /\ prev_functions' = functions
    /\ functions' = add_fn(functions, call.name, call.fn_body, call.scope, result)
    /\ UNCHANGED <<call, result, steps, variable_states, stored_variable_states,
                   prev_variable_states>>

NextInfer ==
    \/ TmpConfig
    \/ LoadScope
    \/ Apply
    \/ ModuleNew
    \/ WriteCargoToml
    \/ WriteConfigToml
    \/ AnalyzerNew
    \/ FixVariableTypes
    \/ Collect
    \/ Push

SpecInfer == InitInfer /\ [][NextInfer]_vars

(***************************************************************************)
(* load_scope on the environments a ContextState can hold.                 *)
(***************************************************************************)
InitScope ==
    /\ functions = <<>>
    /\ prev_functions = <<>>
    /\ call = NoCall
    /\ result = NoResult
    /\ pc = "new"
    /\ steps = <<>>
    /\ variable_states = EmptyMap
    /\ stored_variable_states = EmptyMap
    /\ prev_variable_states = EmptyMap

CallLoadScope ==
    /\ \E scope \in LoadScopes :
          /\ call' = Call("", "", scope)
          /\ variable_states' = load_scope(variable_states, scope)
    /\ prev_variable_states' = variable_states
    /\ stored_variable_states' = variable_states'
    /\ pc' = "loaded"
    /\ UNCHANGED <<functions, prev_functions, result, steps>>

CallApply ==
    /\ \E text \in Snippets :
          LET r == apply(variable_states, from_original_user_code(text))
          IN  /\ r.ok
              /\ variable_states' = r.vs
    /\ pc' = "applied"
    /\ UNCHANGED <<functions, prev_functions, call, result, steps,
                   stored_variable_states, prev_variable_states>>

NextScope == CallLoadScope \/ CallApply

SpecScope == InitScope /\ [][NextScope]_vars

(***************************************************************************)
(* Properties                                                              *)
(***************************************************************************)
Returned == pc = "done"

Last(q) == q[Len(q)]

\* C1: when add_fn returns an error, whatever step of find_outputs failed,
\* the registry is the one the call found: no record appended, none changed,
\* and code() renders the same text as before the call.
C1_FailedAddFnLeavesRegistry ==
    (~result.ok /\ result.err # "pending")
        => /\ functions = prev_functions
           /\ code(functions) = code(prev_functions)

C1_Witness ==
    /\ result = Err("ApplicationError")
    /\ Len(prev_functions) = 1
    /\ functions = prev_functions

\* C2: every add_fn either fails and leaves the registry as it is, or
\* succeeds and appends exactly one record at the end; the records held
\* before keep their position and their fields, none is removed, and a name
\* that is already registered is not rejected.
C2_AppendOnly ==
    [][IF result'.ok
       THEN /\ Len(functions') = Len(functions) + 1
            /\ SubSeq(functions', 1, Len(functions)) = functions
            /\ Last(functions').outputs = result'.outputs
       ELSE functions' = functions]_vars

C2_Witness ==
    /\ Len(functions) = 2
    /\ functions[1].name = functions[2].name
    /\ functions[1].fn_body # functions[2].fn_body
    /\ prev_functions = <<functions[1]>>

\* C3: a successful find_outputs returns exactly one entry per binding whose
\* move_state is New after application and type resolution, typed with the
\* descriptor's type_name, and no entry for an Available or Moved binding.
C3_OutputsAreTheNewBindings ==
    (pc \in {"push", "done"} /\ result.ok)
        => LET o == result.outputs
           IN  /\ \A i \in 1..Len(o) : o[i].arg_name \in DOMAIN variable_states
               /\ \A n \in DOMAIN variable_states :
                     LET at == {i \in 1..Len(o) : o[i].arg_name = n}
                     IN  IF variable_states[n].move_state = "New"
                         THEN /\ Cardinality(at) = 1
                              /\ \A i \in at : o[i].arg_type = variable_states[n].type_name
                         ELSE at = {}

C3_Witness ==
    /\ Returned
    /\ call.fn_body = "let b = 2; a + b"
    /\ call.scope = <<FunctionArg("a", "i32")>>
    /\ result = Ok(<<FunctionArg("b", "i32")>>)
    /\ variable_states["a"].move_state = "Available"
    /\ variable_states["b"] = VariableState("i32", FALSE, "New", "Some")

\* C4: two registrations of the same snippet and scope carry the same
\* outputs in the same order.
C4_StableOutputOrder ==
    \A i, j \in 1..Len(functions) :
        (functions[i].fn_body = functions[j].fn_body
         /\ functions[i].inputs = functions[j].inputs)
            => functions[i].outputs = functions[j].outputs

(***************************************************************************)
(* Reading a rendered text back: the definitions it holds, each with its   *)
(* name, parameters, return types, body and bundled names.                 *)
(***************************************************************************)
RECURSIVE find_token(_, _, _)
\* The first position >= i of token tok in t, Len(t) + 1 when there is none.
find_token(t, i, tok) ==
    IF i > Len(t) THEN Len(t) + 1
    ELSE IF t[i] = tok THEN i
    ELSE find_token(t, i + 1, tok)

RECURSIVE split_nonempty(_, _)
split_nonempty(t, sep) ==
    LET k == find_token(t, 1, sep)
    IN  IF k > Len(t) THEN <<t>>
        ELSE <<SubSeq(t, 1, k - 1)>> \o split_nonempty(SubSeq(t, k + 1, Len(t)), sep)

\* The pieces of t between the tokens sep; no piece for an empty t.
split(t, sep) == IF t = <<>> THEN <<>> ELSE split_nonempty(t, sep)

Malformed == [wf |-> FALSE, name |-> "", params |-> <<>>, types |-> <<>>,
              body |-> "", vars |-> <<>>]

RECURSIVE read_definitions(_, _)
read_definitions(t, i) ==
    IF i > Len(t) THEN <<>>
    ELSE LET p == find_token(t, i, Arrow)
             b == find_token(t, p, OpenBody)
             e == find_token(t, b, Footer)
         IN  IF /\ e <= Len(t)
                /\ i + 2 < p
                /\ t[i] = Header
                /\ t[i + 2] = OpenParams
                /\ b + 2 < e
                /\ t[b + 2] = CloseBody
             THEN <<[wf |-> TRUE,
                     name |-> t[i + 1],
                     params |-> split(SubSeq(t, i + 3, p - 1), ", "),
                     types |-> split(SubSeq(t, p + 1, b - 1), " "),
                     body |-> t[b + 1],
                     vars |-> split(SubSeq(t, b + 3, e - 1), " ")]>>
                  \o read_definitions(t, e + 1)
             ELSE <<Malformed>>

\* C5: code() holds exactly one definition per record, in registration
\* order, named by the record; its parameters are the inputs as "name: type"
\* in order, separated by ", "; its return aggregate lists the output types
\* and its final expression the output names, both in the order of the
\* record's outputs; a record without outputs still has its definition, with
\* an empty aggregate as return type and as final expression.
C5_CodeRendersEveryRecord ==
    LET defs == read_definitions(code(functions), 1)
    IN  /\ Len(defs) = Len(functions)
        /\ \A k \in 1..Len(functions) :
              LET f == functions[k]
                  d == defs[k]
              IN  /\ d.wf
                  /\ d.name = f.name
                  /\ d.body = f.fn_body
                  /\ d.params = [i \in 1..Len(f.inputs) |->
                                    <<f.inputs[i].arg_name, ": ", f.inputs[i].arg_type>>]
                  /\ d.types = [i \in 1..Len(f.outputs) |-> <<f.outputs[i].arg_type, ",">>]
                  /\ d.vars = [i \in 1..Len(f.outputs) |-> <<f.outputs[i].arg_name, ",">>]
                  /\ (f.outputs = <<>> => d.types = <<>> /\ d.vars = <<>>)

C5_Witness ==
    /\ Len(functions) = 2
    /\ functions[1].outputs = <<>>
    /\ Len(functions[2].outputs) = 2
    /\ Len(functions[2].inputs) = 2
    /\ Len(read_definitions(code(functions), 1)) = 2

\* C6: the inputs of the record a successful add_fn appends are the scope
\* the caller gave: same length, order, names and declared types, whatever
\* the snippet does and whatever type the engine settled on for a scope
\* binding.
C6_InputsAreTheScope ==
    (Returned /\ result.ok)
        => /\ Len(functions) = 1
           /\ Len(functions[1].inputs) = Len(call.scope)
           /\ \A i \in 1..Len(call.scope) :
                 /\ functions[1].inputs[i].arg_name = call.scope[i].arg_name
                 /\ functions[1].inputs[i].arg_type = call.scope[i].arg_type

C6_Witness ==
    /\ Returned
    /\ result.ok
    /\ Len(functions) = 1
    /\ functions[1].inputs = call.scope
    /\ \E i \in 1..Len(call.scope) :
          /\ variable_states[call.scope[i].arg_name].move_state = "Available"
          /\ variable_states[call.scope[i].arg_name].type_name # call.scope[i].arg_type

\* C7: a name of the scope that the snippet declares anew is overwritten by
\* a New descriptor with the type the engine resolved, and is an output of
\* the inference with that type.
C7_ShadowedNameIsAnOutput ==
    (pc \in {"push", "done"} /\ result.ok)
        => \A n \in Declared(call.fn_body) \cap DOMAIN stored_variable_states :
              LET stmts == from_original_user_code(call.fn_body)
                  ty == decl_type(stmts, n, Len(stmts))
              IN  /\ ty \in ConcreteTypes
                  /\ variable_states[n].move_state = "New"
                  /\ variable_states[n].type_name = ty
                  /\ \E i \in 1..Len(result.outputs) :
                        result.outputs[i] = FunctionArg(n, ty)

C7_Witness ==
    /\ Returned
    /\ call.fn_body = "let x = true;"
    /\ call.scope = <<FunctionArg("x", "i32")>>
    /\ result.ok
    /\ stored_variable_states["x"] = VariableState("i32", FALSE, "Available", "None")
    /\ variable_states["x"].move_state = "New"
    /\ variable_states["x"].type_name = "bool"
    /\ result = Ok(<<FunctionArg("x", "bool")>>)

\* The snippets that only mutate bindings.
MutatesOnly(text) ==
    LET s == from_original_user_code(text)
    IN  \A i \in 1..Len(s) : s[i].op = "mutate"

Mutated(text) ==
    LET s == from_original_user_code(text)
    IN  {s[i].name : i \in 1..Len(s)}

StepOrder == <<"tmp_config", "load_scope", "apply", "module_new", "write_cargo_toml",
               "write_config_toml", "analyzer_new", "fix_variable_types", "collect">>

StepNames == [i \in 1..Len(steps) |-> steps[i].step]

Ran(p) == \E i \in 1..Len(steps) : steps[i].step = p

Succeeded(p) == \E i \in 1..Len(steps) : steps[i].step = p /\ steps[i].ok

\* C9: the steps of an inference run in the order load scope, apply, write
\* the manifest and config, run the engine, collect; the engine runs only
\* after both files were written; a failed step is the last step and its
\* error is the result, with no output list.
C9_StepsInOrder ==
    /\ Len(steps) <= Len(StepOrder)
    /\ StepNames = SubSeq(StepOrder, 1, Len(steps))
    /\ \A i \in 1..(Len(steps) - 1) : steps[i].ok
    /\ Ran("fix_variable_types")
          => /\ Succeeded("load_scope")
             /\ Succeeded("apply")
             /\ Succeeded("write_cargo_toml")
             /\ Succeeded("write_config_toml")
    /\ (steps # <<>> /\ ~Last(steps).ok)
          => /\ Returned
             /\ ~result.ok
             /\ result.outputs = <<>>
             /\ functions = <<>>
             /\ result.err = CASE Last(steps).step = "apply" -> "ApplicationError"
                               [] Last(steps).step \in {"analyzer_new", "fix_variable_types"}
                                     -> "AnalysisError"
                               [] OTHER -> "WorkspaceError"
    /\ (Returned /\ result.ok) => StepNames = StepOrder
    /\ (Returned /\ ~result.ok) => (steps # <<>> /\ ~Last(steps).ok)

C9_Witness ==
    /\ Returned
    /\ StepNames = SubSeq(StepOrder, 1, 6)
    /\ ~Last(steps).ok
    /\ result = Err("WorkspaceError")

\* The last entry of the scope that names n.
LastEntry(scope, n) ==
    scope[CHOOSE i \in 1..Len(scope) :
             /\ scope[i].arg_name = n
             /\ \A j \in (i + 1)..Len(scope) : scope[j].arg_name # n]

\* C10: right after load_scope(scope) the baseline equals the live map; every
\* name of the scope has one descriptor, with the type of its last entry,
\* not mutable, Available and without span, whatever descriptor it had; the
\* other bindings are as before; loading the same scope again changes
\* neither map.
C10_LoadScope ==
    pc = "loaded"
        => /\ stored_variable_states = variable_states
           /\ DOMAIN variable_states = DOMAIN prev_variable_states \cup ArgNames(call.scope)
           /\ \A n \in ArgNames(call.scope) :
                 variable_states[n] =
                     VariableState(LastEntry(call.scope, n).arg_type, FALSE, "Available", "None")
           /\ \A n \in DOMAIN prev_variable_states \ ArgNames(call.scope) :
                 variable_states[n] = prev_variable_states[n]
           /\ load_scope(variable_states, call.scope) = variable_states

C10_Witness ==
    /\ pc = "loaded"
    /\ call.scope = <<FunctionArg("a", "i32"), FunctionArg("a", Unresolved)>>
    /\ {"a", "b"} \subseteq DOMAIN prev_variable_states
    /\ prev_variable_states["a"] = VariableState(Unresolved, TRUE, "New", "Some")
    /\ variable_states["a"] = VariableState(Unresolved, FALSE, "Available", "None")
    /\ variable_states["b"].move_state = "New"

====
